---- MODULE Spec2Model ----
(***************************************************************************)
(* SmartCacheProxy (TTL + LRU memoising proxy) and SecurityProxy (login /  *)
(* permission / audit proxy) of src/proxy_demo.py, over DatabaseService.   *)
(* As in main(), the SecurityProxy wraps the SmartCacheProxy, which wraps  *)
(* the DatabaseService.                                                    *)
(***************************************************************************)
EXTENDS Integers, Sequences, FiniteSets, TLC

VARIABLES
    users,          \* DatabaseService._data['users']
    cache,          \* SmartCacheProxy._cache: key -> [value, timestamp]
    access_order,   \* SmartCacheProxy._access_order (least recently used first)
    max_size,       \* SmartCacheProxy._max_size
    ttl,            \* SmartCacheProxy._ttl
    lock,           \* owner of SmartCacheProxy._lock, or NoThread
    now,            \* time.time()
    pc,             \* per thread: the statement it is about to execute
    frame,          \* per thread: the locals of the call in progress
    ret,            \* what the call that ended last returned or raised, and to whom
    watched,        \* the call whose real invocations on the target are recorded
    invoked,        \* time and result of the last real invocation of the watched call
    recency,        \* the stored keys by their last insert or hit, oldest first
    current_user,   \* SecurityProxy._current_user
    audit_log,      \* SecurityProxy._audit_log
    handle,         \* the secure_method the caller last obtained from the proxy
    calls_made,     \* how many calls the caller has made on the SecurityProxy
    overlap         \* per thread waiting for the lock: what ran for its call meanwhile

vars == <<users, cache, access_order, max_size, ttl, lock, now, pc, frame, ret,
          watched, invoked, recency, current_user, audit_log, handle, calls_made,
          overlap>>

cacheVars == <<cache, access_order, max_size, ttl, lock>>
histVars == <<watched, invoked, recency, overlap>>
secVars == <<current_user, audit_log, handle, calls_made>>

----------------------------------------------------------------------------
\* Bounds of the model.

\* the caller of the SecurityProxy stops after this many calls
MaxCalls == 5
\* the threads that share a SecurityProxy make this many logins together
MaxLogins == 3
\* largest max_size a proxy is constructed with
MaxSize == 2
\* the ttl the proxy is constructed with
TTL == 2
\* the clock stops advancing here
MaxTime == 3
\* add_user is not started once the users list is this long
MaxUsers == 4
\* no audited operation is started once the audit log is this long
MaxLog == 5

Threads == {"t1", "t2"}
NoThread == "-"
None == "<None>"

----------------------------------------------------------------------------
\* DatabaseService

InitialUsers == <<"a", "b", "c">>
Products == <<"A", "B", "C">>

Str(s) == [type |-> "str", text |-> s]
\* an object that json cannot serialise and whose str() is s
Obj(s) == [type |-> "obj", text |-> s]
NoArgs == <<>>

\* The calls made on the proxies: method name, positional and named arguments.
Call(m, a, kw) == [method |-> m, args |-> a, kwargs |-> kw]
GetUsers == Call("get_users", NoArgs, <<>>)
GetProducts == Call("get_products", NoArgs, <<>>)
AddUser == Call("add_user", <<Str("d")>>, <<>>)
GetUsersBad == Call("get_users", <<Str("d")>>, <<>>)
Calls == {GetUsers, GetProducts, AddUser, GetUsersBad}
NoCall == Call("", NoArgs, <<>>)

\* The one parameter of add_user / delete_user, however it was passed.
Username(c) == IF Len(c.args) = 1 THEN c.args[1].text ELSE c.kwargs[1][2].text

\* Python binds the arguments to the method's signature; a mismatch raises
\* TypeError before the body runs.
Binds(c) ==
    IF c.method \in {"get_users", "get_products"}
    THEN Len(c.args) = 0 /\ Len(c.kwargs) = 0
    ELSE \/ Len(c.args) = 1 /\ Len(c.kwargs) = 0
         \/ Len(c.args) = 0 /\ Len(c.kwargs) = 1 /\ c.kwargs[1][1] = "username"

RECURSIVE RemoveFirst(_, _)
\* list.remove(x): drops the first occurrence of x.
RemoveFirst(s, x) ==
    IF s = <<>> THEN <<>>
    ELSE IF Head(s) = x THEN Tail(s)
    ELSE <<Head(s)>> \o RemoveFirst(Tail(s), x)

Contains(s, x) == \E i \in 1..Len(s) : s[i] = x

\* The parameter of add_user / delete_user as passed: its type and text.
Param(c) == IF Len(c.args) = 1 THEN c.args[1] ELSE c.kwargs[1][2]

\* username in self._data['users']: the users are strings, and an object of
\* another type equals none of them.
InUsers(u, c) == Param(c).type = "str" /\ Contains(u, Username(c))

\* The value a DatabaseService method returns.
TargetValue(u, c) ==
    CASE c.method = "get_users" -> u
      [] c.method = "get_products" -> Products
      [] c.method = "add_user" -> <<"added", Username(c)>>
      [] OTHER -> IF InUsers(u, c)
                  THEN <<"deleted", Username(c)>>
                  ELSE <<"absent", Username(c)>>

\* The users list after a DatabaseService method ran.
TargetUsers(u, c) ==
    CASE c.method = "add_user" -> Append(u, Username(c))
      [] c.method = "delete_user" ->
            IF InUsers(u, c) THEN RemoveFirst(u, Username(c)) ELSE u
      [] OTHER -> u

----------------------------------------------------------------------------
\* SmartCacheProxy

\* json.dumps of one argument value: a str and an object whose str() is the
\* same text both become that JSON string (default=str).
JsonValue(v) == IF v.type = "int" THEN <<"num", v.text>> ELSE <<"str", v.text>>

JsonArgs(a) == [i \in 1..Len(a) |-> JsonValue(a[i])]

\* kwargs is serialised with sort_keys=True: the order of supply is lost.
JsonKwargs(kw) == {<<kw[i][1], JsonValue(kw[i][2])>> : i \in 1..Len(kw)}

CreateCacheKey(c) == <<c.method, JsonArgs(c.args), JsonKwargs(c.kwargs)>>

NoKey == <<"", <<>>, {}>>
NoValue == <<>>

\* What a call gave its caller: a value (with the cache's notification: hit,
\* miss or expired), or the exception it raised.
\* cache_stats() gives a dict: cache_size, max_size, ttl, keys.
Value(v, sig) == [kind |-> "value", val |-> v, sig |-> sig, stats |-> <<>>]
Error(e) == [kind |-> "error", val |-> <<e>>, sig |-> "", stats |-> <<>>]
Stats(d) == [kind |-> "stats", val |-> NoValue, sig |-> "", stats |-> d]
NoOut == [kind |-> "none", val |-> NoValue, sig |-> "", stats |-> <<>>]
Ret(t, c, out) == [thread |-> t, call |-> c, out |-> out]
NoRet == Ret(NoThread, NoCall, NoOut)
CacheStats == Call("cache_stats", NoArgs, <<>>)
NeverInvoked == [at |-> -1, val |-> NoValue]

\* The locals of cached_method (and of the secure_method that called it).
Frame(c, via) ==
    [call |-> c, via |-> via, result |-> NoValue, oldest |-> NoKey,
     sig |-> "miss", size |-> 0, out |-> NoOut]
NoFrame == Frame(NoCall, "")

Key(t) == CreateCacheKey(frame[t].call)

\* dict without one key
Del(f, k) == [x \in DOMAIN f \ {k} |-> f[x]]
\* dict with one key set
Put(f, k, v) == [x \in DOMAIN f \cup {k} |-> IF x = k THEN v ELSE f[x]]

\* What happened to the call of a thread since it began to wait for the lock:
\* how often the target ran for the same call in other threads (2: more than
\* once), when, whether the first of these runs returned normally and what,
\* and whether the key was evicted since.
NoOverlap == [runs |-> 0, at |-> -1, ok |-> FALSE, val |-> NoValue, evicted |-> FALSE]

\* The threads that wait for the lock with a call of the same key as t's.
Waiting(t) == {u \in Threads \ {t} : pc[u] = "wait" /\ Key(u) = Key(t)}

\* The key becomes the most recently used one.
Used(r, k) == Append(RemoveFirst(r, k), k)

\* DatabaseService(), SmartCacheProxy(db_service, max_size=n, ttl=TTL) and
\* SecurityProxy(cached_service, permissions) as constructed.
Constructed(n) ==
    /\ users = InitialUsers
    /\ cache = <<>>
    /\ access_order = <<>>
    /\ max_size = n
    /\ ttl = TTL
    /\ lock = NoThread
    /\ now = 0
    /\ pc = [t \in Threads |-> "idle"]
    /\ frame = [t \in Threads |-> NoFrame]
    /\ ret = NoRet
    /\ invoked = NeverInvoked
    /\ recency = <<>>
    /\ current_user = None
    /\ audit_log = <<>>
    /\ handle = None
    /\ calls_made = 0
    /\ overlap = [t \in Threads |-> NoOverlap]

\* The proxies constructed with a positive max_size.
Setup == \E n \in 1..MaxSize : Constructed(n)

Init == Setup /\ watched \in Calls

\* time passes
Tick ==
    /\ now < MaxTime
    /\ now' = now + 1
    /\ UNCHANGED <<users, cacheVars, pc, frame, ret, histVars, secVars>>

\* cached_method is entered: the key is built from the call (which touches
\* nothing shared), then `with self._lock:` waits until the lock is free.
Enter(t, c, via) ==
    /\ pc[t] = "idle"
    /\ c.method = "add_user" => Len(users) < MaxUsers
    /\ lock = NoThread
    /\ lock' = t
    /\ frame' = [frame EXCEPT ![t] = Frame(c, via)]
    /\ pc' = [pc EXCEPT ![t] = "check"]

\* cached_service.<method>(*args, **kwargs), called on the SmartCacheProxy
CallBegin(t, c) ==
    /\ Enter(t, c, "direct")
    /\ UNCHANGED <<users, cache, access_order, max_size, ttl, now, ret,
                   histVars, secVars>>

\* Fresh with the comparison turned round.
FreshFlipped(entry) == now - entry.timestamp > ttl

\* Fresh with the boundary included.
FreshInclusive(entry) == now - entry.timestamp <= ttl

\* The TTL test of a stored entry.
Fresh(entry) == now - entry.timestamp < ttl

\* if cache_key in self._cache: ... the TTL test, and on expiry the del
Check(t) ==
    /\ pc[t] = "check"
    /\ IF Key(t) \in DOMAIN cache
       THEN IF Fresh(cache[Key(t)])
            THEN /\ frame' = [frame EXCEPT ![t].result = cache[Key(t)].value,
                                           ![t].sig = "hit"]
                 /\ pc' = [pc EXCEPT ![t] = "hit_remove"]
                 /\ recency' = Used(recency, Key(t))
                 /\ UNCHANGED cache
            ELSE /\ cache' = Del(cache, Key(t))
                 /\ recency' = RemoveFirst(recency, Key(t))
                 /\ frame' = [frame EXCEPT ![t].sig = "expired"]
                 /\ pc' = [pc EXCEPT ![t] = "exp_remove"]
       ELSE /\ pc' = [pc EXCEPT ![t] = "call"]
            /\ UNCHANGED <<cache, recency, frame>>
    /\ UNCHANGED <<users, access_order, max_size, ttl, lock, now, ret,
                   watched, invoked, overlap, secVars>>

\* The with block is left (by return or by an exception): the lock is
\* released and the caller gets the outcome; a secure_method that made the
\* call goes on to log it.
Return(t, out) ==
    /\ lock' = NoThread
    /\ IF frame[t].via = "secure"
       THEN /\ frame' = [frame EXCEPT ![t].out = out]
            /\ pc' = [pc EXCEPT ![t] = "sec_return"]
            /\ UNCHANGED ret
       ELSE /\ frame' = [frame EXCEPT ![t] = NoFrame]
            /\ pc' = [pc EXCEPT ![t] = "idle"]
            /\ ret' = Ret(t, frame[t].call, out)

\* _update_access_order: self._access_order.remove(key)
HitRemove(t) ==
    /\ pc[t] = "hit_remove"
    /\ access_order' = RemoveFirst(access_order, Key(t))
    /\ pc' = [pc EXCEPT ![t] = "hit_append"]
    /\ UNCHANGED <<users, cache, max_size, ttl, lock, now, frame, ret,
                   histVars, secVars>>

\* _update_access_order: self._access_order.append(key); return cache_entry['value']
HitAppend(t) ==
    /\ pc[t] = "hit_append"
    /\ access_order' = Append(access_order, Key(t))
    /\ Return(t, Value(frame[t].result, "hit"))
    /\ UNCHANGED <<users, cache, max_size, ttl, now, histVars, secVars>>

\* ExpRemove without the remove.
ExpRemoveKeepsKey(t) ==
    /\ pc[t] = "exp_remove"
    /\ pc' = [pc EXCEPT ![t] = "call"]
    /\ UNCHANGED <<users, cacheVars, now, frame, ret, histVars, secVars>>

\* the expired branch: self._access_order.remove(cache_key)
ExpRemove(t) ==
    /\ pc[t] = "exp_remove"
    /\ access_order' = RemoveFirst(access_order, Key(t))
    /\ pc' = [pc EXCEPT ![t] = "call"]
    /\ UNCHANGED <<users, cache, max_size, ttl, lock, now, frame, ret,
                   histVars, secVars>>

\* CallTarget going on to store the exception as the result.
CallTargetStoresFailure(t) ==
    /\ pc[t] = "call"
    /\ users' = IF Binds(frame[t].call) THEN TargetUsers(users, frame[t].call) ELSE users
    /\ frame' = [frame EXCEPT ![t].result = IF Binds(frame[t].call)
                                            THEN TargetValue(users, frame[t].call)
                                            ELSE <<"TypeError">>]
    /\ pc' = [pc EXCEPT ![t] = "store"]
    /\ UNCHANGED <<cacheVars, now, ret, histVars, secVars>>

\* result = method(*args, **kwargs): the DatabaseService method runs, or the
\* call raises and leaves the with block.
CallTarget(t) ==
    /\ pc[t] = "call"
    /\ invoked' = IF frame[t].call = watched
                  THEN [at |-> now,
                        val |-> IF Binds(frame[t].call)
                                THEN TargetValue(users, frame[t].call)
                                ELSE NoValue]
                  ELSE invoked
    /\ IF Binds(frame[t].call)
       THEN /\ users' = TargetUsers(users, frame[t].call)
            /\ frame' = [frame EXCEPT ![t].result = TargetValue(users, frame[t].call)]
            /\ pc' = [pc EXCEPT ![t] = "store"]
            /\ UNCHANGED <<lock, ret>>
       ELSE /\ Return(t, Error("TypeError"))
            /\ UNCHANGED users
    /\ overlap' = [u \in Threads |->
                      IF u \notin Waiting(t) THEN overlap[u]
                      ELSE IF overlap[u].runs > 0
                      THEN [overlap[u] EXCEPT !.runs = 2]
                      ELSE [overlap[u] EXCEPT
                              !.runs = 1, !.at = now, !.ok = Binds(frame[t].call),
                              !.val = IF Binds(frame[t].call)
                                      THEN TargetValue(users, frame[t].call)
                                      ELSE NoValue]]
    /\ UNCHANGED <<cache, access_order, max_size, ttl, now, watched, recency,
                   secVars>>

\* Full with > for >=.
FullOffByOne == Cardinality(DOMAIN cache) > max_size

\* The test that opens _store_in_cache.
Full == Cardinality(DOMAIN cache) >= max_size

\* Store with pop() for pop(0): the most recently used key is taken.
StorePopsLast(t) ==
    /\ pc[t] = "store"
    /\ IF Full
       THEN IF access_order = <<>>
            THEN /\ Return(t, Error("IndexError"))
                 /\ UNCHANGED access_order
            ELSE /\ frame' = [frame EXCEPT ![t].oldest = access_order[Len(access_order)]]
                 /\ access_order' = SubSeq(access_order, 1, Len(access_order) - 1)
                 /\ pc' = [pc EXCEPT ![t] = "evict_del"]
                 /\ UNCHANGED <<lock, ret>>
       ELSE /\ pc' = [pc EXCEPT ![t] = "insert"]
            /\ UNCHANGED <<access_order, frame, lock, ret>>
    /\ UNCHANGED <<users, cache, max_size, ttl, now, histVars, secVars>>

\* _store_in_cache: if len(self._cache) >= self._max_size:
\*                      oldest_key = self._access_order.pop(0)
\* pop(0) of an empty list raises IndexError.
Store(t) ==
    /\ pc[t] = "store"
    /\ IF Full
       THEN IF access_order = <<>>
            THEN /\ Return(t, Error("IndexError"))
                 /\ UNCHANGED access_order
            ELSE /\ frame' = [frame EXCEPT ![t].oldest = Head(access_order)]
                 /\ access_order' = Tail(access_order)
                 /\ pc' = [pc EXCEPT ![t] = "evict_del"]
                 /\ UNCHANGED <<lock, ret>>
       ELSE /\ pc' = [pc EXCEPT ![t] = "insert"]
            /\ UNCHANGED <<access_order, frame, lock, ret>>
    /\ UNCHANGED <<users, cache, max_size, ttl, now, histVars, secVars>>

\* _store_in_cache: del self._cache[oldest_key]
EvictDel(t) ==
    /\ pc[t] = "evict_del"
    /\ cache' = Del(cache, frame[t].oldest)
    /\ recency' = RemoveFirst(recency, frame[t].oldest)
    /\ pc' = [pc EXCEPT ![t] = "insert"]
    /\ overlap' = [u \in Threads |->
                      IF pc[u] = "wait" /\ Key(u) = frame[t].oldest
                      THEN [overlap[u] EXCEPT !.evicted = TRUE]
                      ELSE overlap[u]]
    /\ UNCHANGED <<users, access_order, max_size, ttl, lock, now, frame, ret,
                   watched, invoked, secVars>>

\* _store_in_cache: self._cache[key] = {'value': value, 'timestamp': time.time()}
Insert(t) ==
    /\ pc[t] = "insert"
    /\ cache' = Put(cache, Key(t), [value |-> frame[t].result, timestamp |-> now])
    /\ recency' = Used(recency, Key(t))
    /\ pc' = [pc EXCEPT ![t] = "append"]
    /\ UNCHANGED <<users, access_order, max_size, ttl, lock, now, frame, ret,
                   watched, invoked, overlap, secVars>>

\* _store_in_cache: self._access_order.append(key); return result
StoreAppend(t) ==
    /\ pc[t] = "append"
    /\ access_order' = Append(access_order, Key(t))
    /\ Return(t, Value(frame[t].result, frame[t].sig))
    /\ UNCHANGED <<users, cache, max_size, ttl, now, histVars, secVars>>

\* cache_stats takes no lock: 'cache_size': len(self._cache) is read first
StatsSize(t) ==
    /\ pc[t] = "idle"
    /\ frame' = [frame EXCEPT ![t] = [Frame(CacheStats, "direct") EXCEPT
                                        !.size = Cardinality(DOMAIN cache)]]
    /\ pc' = [pc EXCEPT ![t] = "stats_keys"]
    /\ UNCHANGED <<users, cacheVars, now, ret, histVars, secVars>>

\* cache_stats: ... 'keys': list(self._cache.keys()) is read last
StatsKeys(t) ==
    /\ pc[t] = "stats_keys"
    /\ ret' = Ret(t, CacheStats,
                  Stats([cache_size |-> frame[t].size, max_size |-> max_size,
                         ttl |-> ttl, keys |-> DOMAIN cache]))
    /\ frame' = [frame EXCEPT ![t] = NoFrame]
    /\ pc' = [pc EXCEPT ![t] = "idle"]
    /\ UNCHANGED <<users, cacheVars, now, histVars, secVars>>

\* Any number of threads use one SmartCacheProxy.
Next ==
    \/ Tick
    \/ \E t \in Threads :
         \/ \E c \in Calls : CallBegin(t, c)
         \/ Check(t)
         \/ HitRemove(t)
         \/ HitAppend(t)
         \/ ExpRemove(t)
         \/ CallTarget(t)
         \/ Store(t)
         \/ EvictDel(t)
         \/ Insert(t)
         \/ StoreAppend(t)

Spec == Init /\ [][Next]_vars

\* ... and cache_stats() is called meanwhile.
NextStats ==
    \/ Next
    \/ \E t \in Threads :
         \/ StatsSize(t)
         \/ StatsKeys(t)

InitStats == Setup /\ watched = NoCall

SpecStats == InitStats /\ [][NextStats]_vars

\* SmartCacheProxy(db_service, max_size=0): no lookup finds a key, no call
\* gets as far as the insert.
NextZero ==
    \/ Tick
    \/ \E t \in Threads :
         \/ \E c \in Calls : CallBegin(t, c)
         \/ Check(t)
         \/ CallTarget(t)
         \/ Store(t)

InitZero == Constructed(0) /\ watched = NoCall

SpecZero == InitZero /\ [][NextZero]_vars

\* cached_method is called while another call may hold the lock: the call
\* starts and the key is built, ...
Invoke(t, c) ==
    /\ pc[t] = "idle"
    /\ c.method = "add_user" => Len(users) < MaxUsers
    /\ frame' = [frame EXCEPT ![t] = Frame(c, "direct")]
    /\ pc' = [pc EXCEPT ![t] = "wait"]
    /\ overlap' = [overlap EXCEPT ![t] = NoOverlap]
    /\ UNCHANGED <<users, cacheVars, now, ret, watched, invoked, recency, secVars>>

\* Acquire without waiting for the lock to be free.
AcquireUnlocked(t) ==
    /\ pc[t] = "wait"
    /\ lock' = t
    /\ pc' = [pc EXCEPT ![t] = "check"]
    /\ UNCHANGED <<users, cache, access_order, max_size, ttl, now, frame, ret,
                   histVars, secVars>>

\* ... and `with self._lock:` is entered once no other thread holds the lock.
Acquire(t) ==
    /\ pc[t] = "wait"
    /\ lock = NoThread
    /\ lock' = t
    /\ pc' = [pc EXCEPT ![t] = "check"]
    /\ UNCHANGED <<users, cache, access_order, max_size, ttl, now, frame, ret,
                   histVars, secVars>>

\* The calls made concurrently: a read, a write that changes what the read
\* returns, and a call that raises.
ConcurrentCalls == {GetUsers, AddUser, GetUsersBad}

\* Threads call the SmartCacheProxy at any time, also while a call is in
\* progress.
NextConc ==
    \/ Tick
    \/ \E t \in Threads :
         \/ \E c \in ConcurrentCalls : Invoke(t, c)
         \/ Acquire(t)
         \/ Check(t)
         \/ HitRemove(t)
         \/ HitAppend(t)
         \/ ExpRemove(t)
         \/ CallTarget(t)
         \/ Store(t)
         \/ EvictDel(t)
         \/ Insert(t)
         \/ StoreAppend(t)

InitConc == Setup /\ watched = NoCall

SpecConc == InitConc /\ [][NextConc]_vars

\* Calls whose keys are compared: delete_user with a string and with an
\* object of the same text, and a call with two named arguments in either
\* order (which get_users does not take: the key is built before the call).
DeleteUser(v) == Call("delete_user", <<v>>, <<>>)
Named(n1, n2) == Call("get_users", NoArgs, <<<<n1, Str(n1)>>, <<n2, Str(n2)>>>>)
KeyCalls == {GetUsers, DeleteUser(Str("a")), DeleteUser(Obj("a")),
             Named("x", "y"), Named("y", "x")}

\* Threads call the SmartCacheProxy with these calls, at one moment.
NextKeys ==
    \E t \in Threads :
        \/ \E c \in KeyCalls : Invoke(t, c)
        \/ Acquire(t)
        \/ Check(t)
        \/ HitRemove(t)
        \/ HitAppend(t)
        \/ CallTarget(t)
        \/ Store(t)
        \/ EvictDel(t)
        \/ Insert(t)
        \/ StoreAppend(t)

InitKeys == Setup /\ watched = NoCall

SpecKeys == InitKeys /\ [][NextKeys]_vars

----------------------------------------------------------------------------
\* SecurityProxy

\* permissions, as main() defines them
UserPermissions ==
    [admin |-> {"all"}, user |-> {"get_users", "get_products"}, guest |-> {"get_users"}]

\* The names login is tried with: the users of the table and a stranger.
Usernames == {"admin", "user", "mallory"}

\* hasattr(self._target, name): the methods of the DatabaseService, reached
\* through the SmartCacheProxy, and its attribute _data.
Methods == {"get_users", "get_products", "add_user", "delete_user"}
Attributes == {"_data"}
HasAttr(name) == name \in Methods \cup Attributes

\* The names looked up on the SecurityProxy.
Names == {"get_users", "add_user", "_data", "nope"}

\* Truthy testing for the empty string only.
TruthyEmptyOnly(u) == u # ""

\* Python's truth value of self._current_user
Truthy(u) == u # None /\ u # ""

\* The two PermissionErrors of __getattr__, and its AttributeError.
NotAuthenticated == "PermissionError: login first"
AccessDenied == "PermissionError: no permission"
UnknownAttribute == "AttributeError"

\* _log_action: the entry appended to self._audit_log
LogEntry(action, details) ==
    [timestamp |-> now, action |-> action, user |-> current_user, details |-> details]

LogAction(action, details) == audit_log' = Append(audit_log, LogEntry(action, details))

\* CheckPermission granting everything to whoever holds any capability.
CheckPermissionAnyCapability(name) ==
    LET user_perms == IF current_user \in DOMAIN UserPermissions
                      THEN UserPermissions[current_user]
                      ELSE {}
    IN  name \in user_perms \/ user_perms # {}

\* CheckPermission without the "all" capability.
CheckPermissionExactOnly(name) ==
    LET user_perms == IF current_user \in DOMAIN UserPermissions
                      THEN UserPermissions[current_user]
                      ELSE {}
    IN  name \in user_perms

\* _check_permission
CheckPermission(name) ==
    LET user_perms == IF current_user \in DOMAIN UserPermissions
                      THEN UserPermissions[current_user]
                      ELSE {}
    IN  name \in user_perms \/ "all" \in user_perms

\* The thread of the one session the proxy keeps.
Session == "t1"

LoginCall(u) == Call("login", <<Str(u)>>, <<>>)
LogoutCall == Call("logout", NoArgs, <<>>)
GetAttrCall(name) == Call("__getattr__", <<Str(name)>>, <<>>)

\* login ending the session when it fails.
LoginForgetsOnFailure(u) ==
    /\ pc[Session] = "idle"
    /\ Len(audit_log) < MaxLog
    /\ calls_made < MaxCalls
    /\ IF u \in DOMAIN UserPermissions
       THEN /\ current_user' = u
            /\ audit_log' = Append(audit_log,
                   [timestamp |-> now, action |-> "LOGIN", user |-> u,
                    details |-> <<u>>])
            /\ ret' = Ret(Session, LoginCall(u), Value(<<"True">>, ""))
       ELSE /\ LogAction("LOGIN_FAILED", <<u>>)
            /\ ret' = Ret(Session, LoginCall(u), Value(<<"False">>, ""))
            /\ current_user' = None
    /\ calls_made' = calls_made + 1
    /\ UNCHANGED <<users, cacheVars, now, pc, frame, histVars, handle>>

\* login(username)
Login(u) ==
    /\ pc[Session] = "idle"
    /\ Len(audit_log) < MaxLog
    /\ calls_made < MaxCalls
    /\ IF u \in DOMAIN UserPermissions
       THEN /\ current_user' = u
            /\ audit_log' = Append(audit_log,
                   [timestamp |-> now, action |-> "LOGIN", user |-> u,
                    details |-> <<u>>])
            /\ ret' = Ret(Session, LoginCall(u), Value(<<"True">>, ""))
       ELSE /\ LogAction("LOGIN_FAILED", <<u>>)
            /\ ret' = Ret(Session, LoginCall(u), Value(<<"False">>, ""))
            /\ UNCHANGED current_user
    /\ calls_made' = calls_made + 1
    /\ UNCHANGED <<users, cacheVars, now, pc, frame, histVars, handle>>

\* logout clearing the user before it logs.
LogoutClearsFirst ==
    /\ pc[Session] = "idle"
    /\ Len(audit_log) < MaxLog
    /\ calls_made < MaxCalls
    /\ IF Truthy(current_user)
       THEN /\ current_user' = None
            /\ audit_log' = Append(audit_log,
                   [timestamp |-> now, action |-> "LOGOUT", user |-> None,
                    details |-> <<None>>])
       ELSE UNCHANGED <<audit_log, current_user>>
    /\ ret' = Ret(Session, LogoutCall, Value(<<"None">>, ""))
    /\ calls_made' = calls_made + 1
    /\ UNCHANGED <<users, cacheVars, now, pc, frame, histVars, handle>>

\* logout()
Logout ==
    /\ pc[Session] = "idle"
    /\ Len(audit_log) < MaxLog
    /\ calls_made < MaxCalls
    /\ IF Truthy(current_user)
       THEN /\ LogAction("LOGOUT", <<current_user>>)
            /\ current_user' = None
       ELSE UNCHANGED <<audit_log, current_user>>
    /\ ret' = Ret(Session, LogoutCall, Value(<<"None">>, ""))
    /\ calls_made' = calls_made + 1
    /\ UNCHANGED <<users, cacheVars, now, pc, frame, histVars, handle>>

\* __getattr__(name): proxy.<name>. Handing out a secure_method is the first
\* half of an invoke, which is counted when the secure_method is called.
GetAttr(name) ==
    /\ pc[Session] = "idle"
    /\ Len(audit_log) < MaxLog
    /\ calls_made < MaxCalls
    /\ IF ~Truthy(current_user)
       THEN /\ ret' = Ret(Session, GetAttrCall(name), Error(NotAuthenticated))
            /\ UNCHANGED <<audit_log, handle>>
       ELSE IF HasAttr(name)
       THEN IF ~CheckPermission(name)
            THEN /\ LogAction("ACCESS_DENIED", <<current_user, name>>)
                 /\ ret' = Ret(Session, GetAttrCall(name), Error(AccessDenied))
                 /\ UNCHANGED handle
            ELSE IF name \in Methods
            THEN /\ handle' = name
                 /\ ret' = Ret(Session, GetAttrCall(name), Value(<<"secure_method", name>>, ""))
                 /\ UNCHANGED audit_log
            ELSE /\ LogAction("ATTRIBUTE_ACCESS", <<current_user, name>>)
                 /\ ret' = Ret(Session, GetAttrCall(name), Value(users \o Products, ""))
                 /\ UNCHANGED handle
       ELSE /\ ret' = Ret(Session, GetAttrCall(name), Error(UnknownAttribute))
            /\ UNCHANGED <<audit_log, handle>>
    /\ calls_made' = IF ret'.out = Value(<<"secure_method", name>>, "")
                     THEN calls_made
                     ELSE calls_made + 1
    /\ UNCHANGED <<users, cacheVars, now, pc, frame, histVars, current_user>>

\* secure_method(*args, **kwargs), up to the call of the wrapped method: the
\* cached_method of the SmartCacheProxy that the lookup got.
SecureCall(c) ==
    /\ handle # None
    /\ c.method = handle
    /\ Len(audit_log) + 2 <= MaxLog
    /\ calls_made < MaxCalls
    /\ LogAction("METHOD_CALL", <<current_user, handle>>)
    /\ Enter(Session, c, "secure")
    /\ calls_made' = calls_made + 1
    /\ UNCHANGED <<users, cache, access_order, max_size, ttl, now, ret, histVars,
                   current_user, handle>>

\* SecureEnd logging every outcome as a success.
SecureEndAlwaysSuccess ==
    /\ pc[Session] = "sec_return"
    /\ LogAction("METHOD_SUCCESS", <<current_user, frame[Session].call.method>>)
    /\ ret' = Ret(Session, frame[Session].call, frame[Session].out)
    /\ frame' = [frame EXCEPT ![Session] = NoFrame]
    /\ pc' = [pc EXCEPT ![Session] = "idle"]
    /\ UNCHANGED <<users, cacheVars, now, histVars, current_user, handle,
                   calls_made>>

\* SecureEnd logging failures only.
SecureEndLogsErrorsOnly ==
    /\ pc[Session] = "sec_return"
    /\ IF frame[Session].out.kind = "value"
       THEN UNCHANGED audit_log
       ELSE LogAction("METHOD_ERROR", <<current_user, frame[Session].call.method>>
                                         \o frame[Session].out.val)
    /\ ret' = Ret(Session, frame[Session].call, frame[Session].out)
    /\ frame' = [frame EXCEPT ![Session] = NoFrame]
    /\ pc' = [pc EXCEPT ![Session] = "idle"]
    /\ UNCHANGED <<users, cacheVars, now, histVars, current_user, handle,
                   calls_made>>

\* secure_method, from the return of the wrapped method: METHOD_SUCCESS and
\* the result, or METHOD_ERROR and the exception raised again.
SecureEnd ==
    /\ pc[Session] = "sec_return"
    /\ IF frame[Session].out.kind = "value"
       THEN LogAction("METHOD_SUCCESS", <<current_user, frame[Session].call.method>>)
       ELSE LogAction("METHOD_ERROR", <<current_user, frame[Session].call.method>>
                                         \o frame[Session].out.val)
    /\ ret' = Ret(Session, frame[Session].call, frame[Session].out)
    /\ frame' = [frame EXCEPT ![Session] = NoFrame]
    /\ pc' = [pc EXCEPT ![Session] = "idle"]
    /\ UNCHANGED <<users, cacheVars, now, histVars, current_user, handle,
                   calls_made>>

\* One caller uses the SecurityProxy that wraps the SmartCacheProxy.
NextSec ==
    \/ \E u \in Usernames : Login(u)
    \/ Logout
    \/ \E name \in Names : GetAttr(name)
    \/ \E c \in Calls : SecureCall(c)
    \/ SecureEnd
    \/ Check(Session)
    \/ HitRemove(Session)
    \/ HitAppend(Session)
    \/ CallTarget(Session)
    \/ Store(Session)
    \/ EvictDel(Session)
    \/ Insert(Session)
    \/ StoreAppend(Session)

InitSec == Setup /\ watched = NoCall

SpecSec == InitSec /\ [][NextSec]_vars

GetAuditLogCall == Call("get_audit_log", NoArgs, <<>>)

\* get_audit_log(): self._audit_log.copy() is a new list of the same entry
\* objects. The caller gets the list of references: the i-th one is the very
\* dict that is the i-th entry of the live log.
GetAuditLog ==
    /\ pc[Session] = "idle"
    /\ calls_made < MaxCalls
    /\ ret' = Ret(Session, GetAuditLogCall,
                  Value([i \in 1..Len(audit_log) |-> i], "copy"))
    /\ calls_made' = calls_made + 1
    /\ UNCHANGED <<users, cacheVars, now, pc, frame, histVars, current_user,
                   audit_log, handle>>

\* The caller changes the list it got, e.g. del log[0]: the live list is
\* another object.
CallerDrops ==
    /\ pc[Session] = "idle"
    /\ ret.call = GetAuditLogCall
    /\ ret.out.val # <<>>
    /\ ret' = [ret EXCEPT !.out.val = Tail(@)]
    /\ UNCHANGED <<users, cacheVars, now, pc, frame, histVars, secVars>>

\* The caller changes an entry of the list it got, e.g.
\* log[0]['action'] = 'EDITED': the dict is the one the live log holds.
CallerEdits ==
    /\ pc[Session] = "idle"
    /\ ret.call = GetAuditLogCall
    /\ ret.out.val # <<>>
    /\ audit_log' = [audit_log EXCEPT ![Head(ret.out.val)].action = "EDITED"]
    /\ UNCHANGED <<users, cacheVars, now, pc, frame, ret, histVars,
                   current_user, handle, calls_made>>

\* The caller also reads the audit log, and uses what it got.
NextLog ==
    \/ NextSec
    \/ GetAuditLog
    \/ CallerDrops
    \/ CallerEdits

InitLog == Setup /\ max_size = 1 /\ watched = NoCall

SpecLog == InitLog /\ [][NextLog]_vars

\* Several threads share one SecurityProxy, which takes no lock. login is
\* then three steps. The first: the test of the name and, for a known name,
\* self._current_user = username; the details of the entry are formatted.
LoginStart(t, u) ==
    /\ pc[t] = "idle"
    /\ calls_made < MaxLogins
    /\ current_user' = IF u \in DOMAIN UserPermissions THEN u ELSE current_user
    /\ frame' = [frame EXCEPT ![t] = Frame(LoginCall(u), "audit")]
    /\ pc' = [pc EXCEPT ![t] = "log_entry"]
    /\ calls_made' = calls_made + 1
    /\ UNCHANGED <<users, cacheVars, now, ret, histVars, audit_log, handle>>

\* _log_action: log_entry = {'timestamp': time.time(), ..., 'user': self._current_user, ...}
LogBuild(t) ==
    /\ pc[t] = "log_entry"
    /\ frame' = [frame EXCEPT ![t].result =
                   <<LogEntry(IF Username(frame[t].call) \in DOMAIN UserPermissions
                              THEN "LOGIN" ELSE "LOGIN_FAILED",
                              <<Username(frame[t].call)>>)>>]
    /\ pc' = [pc EXCEPT ![t] = "log_append"]
    /\ UNCHANGED <<users, cacheVars, now, ret, histVars, secVars>>

\* _log_action: self._audit_log.append(log_entry); login returns
LogAppend(t) ==
    /\ pc[t] = "log_append"
    /\ audit_log' = Append(audit_log, frame[t].result[1])
    /\ ret' = Ret(t, frame[t].call,
                  Value(IF Username(frame[t].call) \in DOMAIN UserPermissions
                        THEN <<"True">> ELSE <<"False">>, ""))
    /\ frame' = [frame EXCEPT ![t] = NoFrame]
    /\ pc' = [pc EXCEPT ![t] = "idle"]
    /\ UNCHANGED <<users, cacheVars, now, histVars, current_user, handle, calls_made>>

\* The names the threads log in with: a user of the table and a stranger.
ConcurrentNames == {"admin", "mallory"}

NextAudit ==
    \/ Tick
    \/ \E t \in Threads :
         \/ \E u \in ConcurrentNames : LoginStart(t, u)
         \/ LogBuild(t)
         \/ LogAppend(t)

InitAudit == Setup /\ max_size = MaxSize /\ watched = NoCall

SpecAudit == InitAudit /\ [][NextAudit]_vars

----------------------------------------------------------------------------
\* Claims about the SecurityProxy, checked under SpecSec.

Last(s) == s[Len(s)]

\* The identity holds neither the capability for the name nor "all".
Lacks(u, name) ==
    /\ u \in DOMAIN UserPermissions
    /\ name \notin UserPermissions[u]
    /\ "all" \notin UserPermissions[u]

\* The step leaves the wrapped SmartCacheProxy and the DatabaseService alone.
TargetUntouched == UNCHANGED <<users, cache, access_order, lock, pc, frame>>

\* C1: while nobody is logged in, looking up any name on the proxy (the first
\* step of every invoke and of every attribute access) raises the "login
\* first" PermissionError and changes nothing: no audit entry, the same
\* session state, no secure_method handed out, target and cache untouched.
C1_LoggedOutFails ==
    [][\A name \in Names :
         (current_user = None /\ GetAttr(name)) =>
            /\ ret' = Ret(Session, GetAttrCall(name), Error(NotAuthenticated))
            /\ UNCHANGED <<audit_log, current_user, handle>>
            /\ TargetUntouched]_vars

\* A lookup was refused after a logout.
C1_Witness ==
    /\ ret.call.method = "__getattr__"
    /\ ret.out = Error(NotAuthenticated)
    /\ current_user = None
    /\ audit_log # <<>>
    /\ Last(audit_log).action = "LOGOUT"

\* C2 as claimed: logged in, a lookup of any name the identity holds no
\* capability for raises the "no permission" PermissionError, appends exactly
\* one ACCESS_DENIED entry and does not reach the target.
C2_AnyNameDenied ==
    [][\A name \in Names :
         (Lacks(current_user, name) /\ GetAttr(name)) =>
            /\ ret' = Ret(Session, GetAttrCall(name), Error(AccessDenied))
            /\ audit_log' = Append(audit_log,
                   [timestamp |-> now, action |-> "ACCESS_DENIED",
                    user |-> current_user, details |-> <<current_user, name>>])
            /\ TargetUntouched]_vars

\* C2 amended: the same, for the names the target exposes (a name the target
\* does not expose raises AttributeError and logs nothing, whatever the
\* permissions).
C2_ExposedNameDenied ==
    [][\A name \in Names :
         (Lacks(current_user, name) /\ HasAttr(name) /\ GetAttr(name)) =>
            /\ ret' = Ret(Session, GetAttrCall(name), Error(AccessDenied))
            /\ audit_log' = Append(audit_log,
                   [timestamp |-> now, action |-> "ACCESS_DENIED",
                    user |-> current_user, details |-> <<current_user, name>>])
            /\ UNCHANGED <<current_user, handle>>
            /\ TargetUntouched]_vars

\* user was refused add_user.
C2_Witness ==
    /\ current_user = "user"
    /\ ret = Ret(Session, GetAttrCall("add_user"), Error(AccessDenied))
    /\ audit_log # <<>>
    /\ Last(audit_log).action = "ACCESS_DENIED"
    /\ Last(audit_log).details = <<"user", "add_user">>

\* The identity holds "all".
HoldsAll(u) == u \in DOMAIN UserPermissions /\ "all" \in UserPermissions[u]

\* C3: while an identity holding "all" is logged in, no lookup raises the
\* "no permission" error or logs ACCESS_DENIED, whatever the name; a method
\* the target exposes is handed out as a secure_method, an attribute it
\* exposes is read and logged as ATTRIBUTE_ACCESS; and calling the
\* secure_method enters the wrapped method with that call.
C3_AllGrantsEverything ==
    [][/\ \A name \in Names :
            (HoldsAll(current_user) /\ GetAttr(name)) =>
               /\ ret'.out # Error(AccessDenied)
               /\ \A i \in 1..Len(audit_log') : audit_log'[i].action = "ACCESS_DENIED"
                      => i <= Len(audit_log) /\ audit_log[i] = audit_log'[i]
               /\ name \in Methods =>
                      handle' = name /\ ret'.out = Value(<<"secure_method", name>>, "")
               /\ name \in Attributes =>
                      /\ ret'.out.kind = "value"
                      /\ Len(audit_log') = Len(audit_log) + 1
                      /\ Last(audit_log').action = "ATTRIBUTE_ACCESS"
       /\ \A c \in Calls :
            (HoldsAll(current_user) /\ SecureCall(c)) =>
               /\ pc'[Session] = "check"
               /\ frame'[Session].call = c
               /\ Last(audit_log').action = "METHOD_CALL"]_vars

\* admin called add_user and it ran.
C3_Witness ==
    /\ current_user = "admin"
    /\ ret = Ret(Session, AddUser, Value(<<"added", "d">>, "miss"))
    /\ Last(audit_log).action = "METHOD_SUCCESS"
    /\ Last(audit_log).user = "admin"

\* What login must do, with the action name a successful login is logged under.
LoginContract(u, success) ==
    IF u \in DOMAIN UserPermissions
    THEN /\ ret' = Ret(Session, LoginCall(u), Value(<<"True">>, ""))
         /\ current_user' = u
         /\ Len(audit_log') = Len(audit_log) + 1
         /\ SubSeq(audit_log', 1, Len(audit_log)) = audit_log
         /\ Last(audit_log').action = success
    ELSE /\ ret' = Ret(Session, LoginCall(u), Value(<<"False">>, ""))
         /\ current_user' = current_user
         /\ Len(audit_log') = Len(audit_log) + 1
         /\ SubSeq(audit_log', 1, Len(audit_log)) = audit_log
         /\ Last(audit_log').action = "LOGIN_FAILED"

C5_Logout ==
    [][Logout =>
         /\ IF current_user # None
            THEN /\ audit_log' = Append(audit_log,
                        [timestamp |-> now, action |-> "LOGOUT",
                         user |-> current_user, details |-> <<current_user>>])
                 /\ current_user' = None
            ELSE UNCHANGED <<audit_log, current_user>>
         /\ TargetUntouched]_vars

\* admin logged out.
C5_Witness ==
    /\ ret.call = LogoutCall
    /\ current_user = None
    /\ audit_log # <<>>
    /\ Last(audit_log).action = "LOGOUT"
    /\ Last(audit_log).user = "admin"

----------------------------------------------------------------------------
\* Claims about the SmartCacheProxy, checked under Spec (C10: SpecStats).

Range(s) == {s[i] : i \in 1..Len(s)}

\* The watched call was really invoked, completed normally, and that
\* invocation is less than one ttl ago.
InWindow == invoked.at >= 0 /\ Binds(watched) /\ now - invoked.at < ttl

\* C6 as claimed (for calls the target completes normally): once the target
\* ran for a call, it does not run again for the same call within one ttl of
\* that invocation, whatever other calls are made in between.
C6_OncePerWindow ==
    [][\A t \in Threads :
         (CallTarget(t) /\ frame[t].call = watched) => ~InWindow]_vars

\* C6 amended: a repeated call within one ttl of the invocation that
\* produced the stored result, made while that result's entry has not been
\* evicted, is a cache hit: it returns the value that invocation returned and
\* the target is not invoked (nor its data changed).
C6_HitWhileStored ==
    [][\A t \in Threads :
         /\ (Check(t) /\ frame[t].call = watched /\ InWindow
                      /\ Key(t) \in DOMAIN cache) =>
               /\ pc'[t] = "hit_remove"
               /\ frame'[t].result = invoked.val
         /\ (pc[t] \in {"hit_remove", "hit_append"} /\ pc'[t] # pc[t]) =>
               /\ pc'[t] \in {"hit_append", "idle", "sec_return"}
               /\ UNCHANGED <<users, invoked>>
         /\ (HitAppend(t) /\ frame[t].call = watched) =>
               ret' = Ret(t, watched, Value(invoked.val, "hit"))]_vars

\* get_users() was answered from the cache with the list the target returned
\* before, although the target would now return another one.
C6_Witness ==
    /\ watched = GetUsers
    /\ ret.call = GetUsers
    /\ ret.out = Value(invoked.val, "hit")
    /\ users # invoked.val
    /\ now - invoked.at < ttl

\* C7: a lookup of a stored key at time now is a hit returning the stored
\* value when now - timestamp < ttl, and otherwise a miss that deletes the
\* entry and then removes the key from the access order; a hit moves the key
\* to the tail of the access order; and no step changes the value or the
\* timestamp of an entry that stays stored, so a key that keeps being hit
\* still expires ttl after it was stored.
C7_TtlFromWrite ==
    [][/\ \A t \in Threads :
            /\ (Check(t) /\ Key(t) \in DOMAIN cache) =>
                  IF now - cache[Key(t)].timestamp < ttl
                  THEN /\ pc'[t] = "hit_remove"
                       /\ frame'[t].result = cache[Key(t)].value
                       /\ cache' = cache
                  ELSE /\ pc'[t] = "exp_remove"
                       /\ DOMAIN cache' = DOMAIN cache \ {Key(t)}
            /\ ExpRemove(t) =>
                  /\ Key(t) \notin Range(access_order')
                  /\ pc'[t] = "call"
            /\ HitAppend(t) =>
                  /\ Last(access_order') = Key(t)
                  /\ ret'.out = Value(cache[Key(t)].value, "hit")
       /\ \A k \in DOMAIN cache \cap DOMAIN cache' :
            \/ cache'[k] = cache[k]
            \/ \E t \in Threads : Insert(t) /\ Key(t) = k]_vars

\* A key that was hit a moment ago has now expired: the call that returned
\* last was a hit on the watched call, the same call is made again ttl after
\* the value was computed, and its entry is gone from cache and access order.
C7_Witness ==
    \E t \in Threads :
        /\ pc[t] = "call"
        /\ frame[t].sig = "expired"
        /\ frame[t].call = watched
        /\ ret.call = watched
        /\ ret.out.sig = "hit"
        /\ now - invoked.at >= ttl
        /\ Key(t) \notin DOMAIN cache
        /\ Key(t) \notin Range(access_order)

\* C8: storing a new key when the cache holds max_size entries evicts exactly
\* one entry: the key at the head of the access order, which is the stored
\* key whose last insert or hit is the oldest (recency records them); with
\* fewer entries nothing is evicted.
C8_LruEviction ==
    [][\A t \in Threads :
         /\ Store(t) =>
               IF Cardinality(DOMAIN cache) >= max_size
               THEN /\ Cardinality(DOMAIN cache) = max_size
                    /\ pc'[t] = "evict_del"
                    /\ frame'[t].oldest = Head(recency)
                    /\ frame'[t].oldest # Key(t)
               ELSE /\ pc'[t] = "insert"
                    /\ UNCHANGED <<cache, access_order>>
         /\ EvictDel(t) =>
               /\ DOMAIN cache' = DOMAIN cache \ {Head(recency)}
               /\ Cardinality(DOMAIN cache') = max_size - 1
               /\ \A k \in DOMAIN cache' : cache'[k] = cache[k]
         /\ StoreAppend(t) =>
               /\ Key(t) \in DOMAIN cache
               /\ Last(access_order') = Key(t)
               /\ Cardinality(DOMAIN cache) <= max_size]_vars

\* A hit protected the key stored first: the key about to be evicted was
\* stored after a key that stays.
C8_Witness ==
    \E t \in Threads :
        /\ pc[t] = "evict_del"
        /\ \E k \in DOMAIN cache :
              /\ k # frame[t].oldest
              /\ cache[k].timestamp < cache[frame[t].oldest].timestamp

\* C9: whenever no call is inside the critical section, the access order
\* holds exactly the keys of the cache, each once.
C9_OrderMatchesCache ==
    lock = NoThread =>
        /\ Range(access_order) = DOMAIN cache
        /\ Len(access_order) = Cardinality(DOMAIN cache)

\* Nobody holds the lock, the cache is full with two entries, and the call
\* that returned last had found its entry expired and stored a new one.
C9_Witness ==
    /\ lock = NoThread
    /\ Cardinality(DOMAIN cache) = 2
    /\ ret.out.kind = "value"
    /\ ret.out.sig = "expired"

\* C10: the cache never holds more than max_size entries, in any state, also
\* inside a critical section, and no cache_stats() reports a larger size.
C10_SizeBound ==
    /\ Cardinality(DOMAIN cache) <= max_size
    /\ ret.out.kind = "stats" => ret.out.stats.cache_size <= max_size

\* cache_stats() reported a full cache while another thread was evicting.
C10_Witness ==
    /\ ret.out.kind = "stats"
    /\ ret.out.stats.cache_size = max_size
    /\ \E t \in Threads : pc[t] = "insert" /\ frame[t].oldest # NoKey

\* C16: when the target raises during a miss, the caller gets that
\* exception, the lock is released, the cache and the access order are as
\* they were and hold no entry for the key, the access order still lists
\* exactly the keys of the cache, and the next lookup of the same call is
\* not a hit: it goes on to call the target again.
C16_FailureNotCached ==
    [][\A t \in Threads :
         /\ (CallTarget(t) /\ ~Binds(frame[t].call)) =>
               /\ ret' = Ret(t, frame[t].call, Error("TypeError"))
               /\ lock' = NoThread
               /\ pc'[t] = "idle"
               /\ UNCHANGED <<users, cache, access_order>>
               /\ Key(t) \notin DOMAIN cache'
               /\ Range(access_order') = DOMAIN cache'
               /\ Len(access_order') = Cardinality(DOMAIN cache')
               /\ Cardinality(DOMAIN cache') <= max_size
         /\ (Check(t) /\ ret.out.kind = "error" /\ ret.call = frame[t].call) =>
               pc'[t] = "call"]_vars

\* get_users('d') raised TypeError while the cache held other entries, and
\* the same call, made again, is about to call the target again.
C16_Witness ==
    \E t \in Threads :
        /\ ret.call = GetUsersBad
        /\ ret.out = Error("TypeError")
        /\ frame[t].call = GetUsersBad
        /\ pc[t] = "call"
        /\ lock = t
        /\ cache # <<>>

\* C18: what cache_stats() returns describes one state of the cache: the
\* size it reports is the number of keys it reports.
C18_StatsOneState ==
    ret.out.kind = "stats" =>
        ret.out.stats.cache_size = Cardinality(ret.out.stats.keys)

\* C19 (checked under SpecZero, where max_size is 0): the cache stays
\* empty and every call that the target completes returns the target's
\* result to the caller: no call ends with an error that the target did not
\* raise.
C19_AlwaysMiss ==
    /\ cache = <<>>
    /\ access_order = <<>>
    /\ (ret.call \in Calls /\ Binds(ret.call)) => ret.out.kind = "value"

----------------------------------------------------------------------------
\* Claims about concurrent calls of the SmartCacheProxy, checked under SpecConc.

\* The thread is inside `with self._lock:`.
Critical(t) == pc[t] \in {"check", "hit_remove", "hit_append", "exp_remove",
                          "call", "store", "evict_del", "insert", "append"}

\* C11 as claimed: when the target ran for a call in one thread while another
\* thread waited with the same call, the waiting thread does not run the
\* target: its lookup is a hit with the result of that one run.
C11_RunsOnce ==
    [][\A u \in Threads :
         (Check(u) /\ overlap[u].runs >= 1) =>
            /\ pc'[u] = "hit_remove"
            /\ frame'[u].result = overlap[u].val]_vars

\* C11 amended: at most one thread is between the lookup and the return of
\* a call, it holds the lock, and only it changes the cache, the access order
\* or the target's data (so the calls take effect one after the other, in
\* the order in which they got the lock); and when the target ran once and
\* returned normally for a call while another thread waited with the same
\* call, that thread's lookup, made before ttl has passed and unless the entry
\* was evicted meanwhile, is a hit with the result of that run.
C11_Serial ==
    [][/\ \A t \in Threads :
            /\ Critical(t) => lock = t
            /\ Critical(t)' => lock' = t
            /\ (pc'[t] # pc[t] /\ pc[t] # "idle") =>
                   \A u \in Threads \ {t} : frame'[u] = frame[u] /\ pc'[u] = pc[u]
       /\ <<users, cache, access_order>>' # <<users, cache, access_order>> =>
            /\ lock # NoThread
            /\ pc'[lock] # pc[lock]
       /\ \A u \in Threads :
            (/\ Check(u)
             /\ overlap[u].runs = 1
             /\ overlap[u].ok
             /\ ~overlap[u].evicted
             /\ now - overlap[u].at < ttl) =>
               /\ pc'[u] = "hit_remove"
               /\ frame'[u].result = overlap[u].val
               /\ UNCHANGED <<users, cache>>]_vars

\* Two threads called get_users() at once on a cache without the key: the
\* target ran once, for the thread that got the lock first; the other one
\* found the result stored, although the users have changed since.
C11_Witness ==
    \E t, u \in Threads :
        /\ t # u
        /\ ret = Ret(t, AddUser, Value(<<"added", "d">>, "miss"))
        /\ frame[u].call = GetUsers
        /\ pc[u] = "hit_remove"
        /\ overlap[u].runs = 1
        /\ overlap[u].ok
        /\ frame[u].result = overlap[u].val
        /\ frame[u].result # users
----------------------------------------------------------------------------
\* The cache key, checked under SpecKeys.

\* The named arguments as Python holds them: a dict.
KwDict(c) == {<<c.kwargs[i][1], c.kwargs[i][2]>> : i \in 1..Len(c.kwargs)}

\* The same method called with the same arguments.
SameCall(c1, c2) ==
    /\ c1.method = c2.method
    /\ c1.args = c2.args
    /\ KwDict(c1) = KwDict(c2)

\* C17: two calls in progress have the same cache key exactly when they are
\* the same call: the named arguments in any order give one key, and calls
\* that differ in the method or in an argument value give different keys.
C17_KeyTellsCallsApart ==
    \A t, u \in Threads :
        (pc[t] # "idle" /\ pc[u] # "idle") =>
            (Key(t) = Key(u) <=> SameCall(frame[t].call, frame[u].call))

----------------------------------------------------------------------------
\* More claims about the SecurityProxy, checked under SpecSec.

\* The identity holds the capability for the name, or "all".
Permitted(u, name) ==
    /\ u \in DOMAIN UserPermissions
    /\ name \in UserPermissions[u] \/ "all" \in UserPermissions[u]

\* The step appends exactly n entries to the audit log.
Appends(n) ==
    /\ Len(audit_log') = Len(audit_log) + n
    /\ SubSeq(audit_log', 1, Len(audit_log)) = audit_log

\* C12 as claimed: whenever no call is in progress, the audit log has one
\* entry per call made so far: per login, per logout and per invoke attempt
\* (an attribute access counted as one).
C12_EntryPerCall ==
    pc[Session] = "idle" => Len(audit_log) = calls_made

\* C12 amended: every call appends a number of entries that its outcome
\* fixes: login one; logout one when somebody is logged in, else none; a
\* lookup none when nobody is logged in or the target lacks the name, one
\* (ACCESS_DENIED) when the identity is not permitted, one (ATTRIBUTE_ACCESS)
\* for a permitted attribute, none yet for a permitted method; calling the
\* method handed out appends METHOD_CALL at once and, when the wrapped
\* method has ended, one of METHOD_SUCCESS and METHOD_ERROR: two entries per
\* invoke that reaches the target. Nothing else appends.
C12_EntriesPerCall ==
    [][/\ \A u \in Usernames : Login(u) => Appends(1)
       /\ Logout => IF current_user # None THEN Appends(1) ELSE Appends(0)
       /\ \A name \in Names :
            GetAttr(name) =>
               IF current_user = None \/ ~HasAttr(name) THEN Appends(0)
               ELSE IF ~Permitted(current_user, name) THEN Appends(1)
               ELSE IF name \in Attributes THEN Appends(1)
               ELSE Appends(0)
       /\ \A c \in Calls :
            SecureCall(c) => Appends(1) /\ Last(audit_log').action = "METHOD_CALL"
       /\ SecureEnd =>
            /\ Appends(1)
            /\ Last(audit_log).action = "METHOD_CALL"
            /\ Last(audit_log').action \in {"METHOD_SUCCESS", "METHOD_ERROR"}
       /\ (pc[Session] # "idle" /\ pc'[Session] # "idle") => Appends(0)
       /\ calls_made' = calls_made => (pc[Session] # "idle" \/ Appends(0))]_vars

\* After a login and one invoke the log has three entries for two calls.
C12_Witness ==
    /\ pc[Session] = "idle"
    /\ calls_made = 2
    /\ Len(audit_log) = 3
    /\ Last(audit_log).action = "METHOD_SUCCESS"
    /\ ret.call = GetUsers
\* How many entries of the log have one of the actions.
Count(log, actions) == Cardinality({i \in 1..Len(log) : log[i].action \in actions})

\* In every prefix of the log the METHOD_CALL entries are as many as the
\* METHOD_SUCCESS and METHOD_ERROR entries together, or one more.
Matched(log) ==
    \A n \in 0..Len(log) :
        Count(SubSeq(log, 1, n), {"METHOD_CALL"})
          - Count(SubSeq(log, 1, n), {"METHOD_SUCCESS", "METHOD_ERROR"}) \in {0, 1}

\* C15: calling a secure_method appends METHOD_CALL before the wrapped
\* method is entered; the target is only invoked with that entry last in the
\* log; when the wrapped method has ended, exactly one entry is appended,
\* METHOD_SUCCESS when it returned (and the caller gets its result) or
\* METHOD_ERROR when it raised (and the caller gets the same exception); no
\* METHOD_SUCCESS or METHOD_ERROR is without its METHOD_CALL; and from the
\* call to its end the logged-in user does not change.
C15_CallProtocol ==
    [][/\ \A c \in Calls :
            SecureCall(c) =>
               /\ Appends(1)
               /\ Last(audit_log').action = "METHOD_CALL"
               /\ pc'[Session] = "check"
               /\ UNCHANGED <<users, current_user>>
       /\ CallTarget(Session) =>
            /\ Last(audit_log).action = "METHOD_CALL"
            /\ UNCHANGED <<audit_log, current_user>>
       /\ SecureEnd =>
            /\ Appends(1)
            /\ Last(audit_log).action = "METHOD_CALL"
            /\ Last(audit_log').action =
                  IF frame[Session].out.kind = "value"
                  THEN "METHOD_SUCCESS" ELSE "METHOD_ERROR"
            /\ ret' = Ret(Session, frame[Session].call, frame[Session].out)
            /\ frame[Session].out.kind \in {"value", "error"}
            /\ UNCHANGED <<users, current_user>>
       /\ pc[Session] # "idle" => UNCHANGED current_user
       /\ Matched(audit_log) /\ Matched(audit_log')
       /\ Count(audit_log, {"METHOD_CALL"})
             - Count(audit_log, {"METHOD_SUCCESS", "METHOD_ERROR"})
          = IF pc[Session] = "idle" THEN 0 ELSE 1]_vars

\* get_users('d') raised TypeError in the target: METHOD_CALL, then
\* METHOD_ERROR, and the caller got the TypeError.
C15_Witness ==
    /\ ret = Ret(Session, GetUsersBad, Error("TypeError"))
    /\ Len(audit_log) >= 2
    /\ Last(audit_log).action = "METHOD_ERROR"
    /\ audit_log[Len(audit_log) - 1].action = "METHOD_CALL"
    /\ current_user = Last(audit_log).user

\* C20: whenever a secure_method is called, and whenever the target's
\* operation is then invoked, somebody is logged in who is permitted the
\* operation; and every METHOD_CALL entry of the log records a user,
\* permitted the method it names.
C20_AuthorisedAtCall ==
    [][/\ \A c \in Calls :
            SecureCall(c) => Permitted(current_user, c.method)
       /\ CallTarget(Session) =>
            Permitted(current_user, frame[Session].call.method)
       /\ \A i \in 1..Len(audit_log') :
            audit_log'[i].action = "METHOD_CALL" =>
               /\ audit_log'[i].user # None
               /\ Permitted(audit_log'[i].user, audit_log'[i].details[2])]_vars

----------------------------------------------------------------------------
\* The audit log and its readers, checked under SpecLog.

\* C14: the audit log only grows at its end: after any step, of the proxy or
\* of a caller using the list get_audit_log() returned, the log before the
\* step is a prefix of the log after it.
C14_AppendOnly ==
    [][/\ Len(audit_log') >= Len(audit_log)
       /\ SubSeq(audit_log', 1, Len(audit_log)) = audit_log]_vars

----------------------------------------------------------------------------
\* The audit log under concurrent use, checked under SpecAudit.

\* C13: in every reachable state the entries of the audit log are in
\* non-decreasing order of their timestamps (the clock never goes back).
C13_Chronological ==
    \A i, j \in 1..Len(audit_log) :
        i < j => audit_log[i].timestamp <= audit_log[j].timestamp
====
